---- MODULE Spec2Model ----
(***************************************************************************)
(* ampurr: battery charge-limit and CPU-governor control through sysfs.    *)
(* Model of src/ampurr.py.  The state is the part of the filesystem the    *)
(* program touches; every action is one process invocation (a CLI command, *)
(* the boot-time entrypoint, install, uninstall) or a reboot of the        *)
(* machine.  File contents are sequences of one-character strings.         *)
(***************************************************************************)
EXTENDS Integers, Sequences, FiniteSets, TLC

VARIABLES
    psDir,      \* /sys/class/power_supply/ exists
    psEnt,      \* the entries of /sys/class/power_supply/
    thr,        \* entry -> file <entry>/charge_control_end_threshold
    cap,        \* entry -> file <entry>/capacity
    config,     \* file /etc/ampurr.conf
    svcFile,    \* /etc/systemd/system/ampurr.service exists
    cpuDir,     \* /sys/devices/system/cpu/ exists
    cpuEnt,     \* the entries of /sys/devices/system/cpu/
    gov,        \* core -> file cpu<core>/cpufreq/scaling_governor
    avail,      \* file cpu0/cpufreq/scaling_available_governors
    last,       \* the operation that ran last: its inputs and its outcome
    lastSet     \* history: argument of the most recent set_charge_limit that exited 0

vars == <<psDir, psEnt, thr, cap, config, svcFile, cpuDir, cpuEnt, gov, avail,
          last, lastSet>>

batVars == <<psDir, psEnt, thr, cap, config, svcFile>>
cpuVars == <<cpuDir, cpuEnt, gov, avail>>

----------------------------------------------------------------------------
(* Bounds of the model *)

\* argument values tried beyond each end of the valid range
Slack == 1
\* number of cpu<N> directories the model can hold
NumCores == 4

(* Program constants *)
MinLimit == 50
MaxLimit == 100
RootUid == 0

----------------------------------------------------------------------------
(* Text: str(), int(), str.strip(), str.split() *)

DigitChars == <<"0", "1", "2", "3", "4", "5", "6", "7", "8", "9">>
SpaceChars == {" ", "\n", "\t"}

IsDigit(c) == \E i \in 1..10 : DigitChars[i] = c
DigitVal(c) == (CHOOSE i \in 1..10 : DigitChars[i] = c) - 1
IsSpace(c) == c \in SpaceChars

RECURSIVE NatStr(_)
NatStr(n) ==
    IF n < 10 THEN <<DigitChars[n + 1]>>
    ELSE NatStr(n \div 10) \o <<DigitChars[(n % 10) + 1]>>

\* a plausible slip: the digits come out least significant first
StrReversed(n) ==
    LET RECURSIVE rev(_)
        rev(k) == IF k < 10 THEN <<DigitChars[k + 1]>>
                  ELSE <<DigitChars[(k % 10) + 1]>> \o rev(k \div 10)
    IN  IF n < 0 THEN <<"-">> \o rev(-n) ELSE rev(n)

\* str(limit_value)
Str(n) == IF n < 0 THEN <<"-">> \o NatStr(-n) ELSE NatStr(n)

RECURSIVE LStrip(_)
LStrip(s) == IF s # <<>> /\ IsSpace(s[1]) THEN LStrip(Tail(s)) ELSE s

RECURSIVE RStrip(_)
RStrip(s) ==
    IF s # <<>> /\ IsSpace(s[Len(s)]) THEN RStrip(SubSeq(s, 1, Len(s) - 1)) ELSE s

\* str.strip()
Strip(s) == LStrip(RStrip(s))

RECURSIVE NatVal(_)
NatVal(s) ==
    IF s = <<>> THEN 0
    ELSE 10 * NatVal(SubSeq(s, 1, Len(s) - 1)) + DigitVal(s[Len(s)])

\* int(text): surrounding whitespace and one sign are accepted, then digits
IntParse(s) ==
    LET t == Strip(s)
        signed == t # <<>> /\ t[1] \in {"-", "+"}
        d == IF signed THEN Tail(t) ELSE t
        good == d # <<>> /\ \A i \in 1..Len(d) : IsDigit(d[i])
    IN  IF ~good THEN [ok |-> FALSE, val |-> 0]
        ELSE [ok |-> TRUE,
              val |-> IF signed /\ t[1] = "-" THEN 0 - NatVal(d) ELSE NatVal(d)]

----------------------------------------------------------------------------
(* Files *)

NoFile == [exists |-> FALSE, text |-> <<>>]
FileOf(t) == [exists |-> TRUE, text |-> t]

\* open(path, 'w') of a regular file creates or truncates it before anything
\* is written; cfgIO says how far the write gets
CfgModes == {"ok", "open_fails", "write_fails"}

\* with open(CONFIG_FILE, 'w') as f: f.write(text)
ConfigWrite(old, text, cfgIO) ==
    CASE cfgIO = "ok"          -> [ok |-> TRUE,  file |-> FileOf(text)]
      [] cfgIO = "open_fails"  -> [ok |-> FALSE, file |-> old]
      [] cfgIO = "write_fails" -> [ok |-> FALSE, file |-> FileOf(<<>>)]

\* what a read of a sysfs integer attribute returns
SysfsShow(n) == NatStr(n) \o <<"\n">>

\* The kernel side of charge_control_end_threshold: a write of text is parsed
\* as an integer, refused outside 0..100 or when the driver fails (ok = FALSE),
\* and later read back as the decimal number followed by a newline.  Python
\* flushes nothing for an empty string, so the file is then left as it was.
SysfsThrWrite(old, text, ok) ==
    LET p == IntParse(text) IN
    IF ~old.exists THEN [ok |-> FALSE, file |-> old]
    ELSE IF text = <<>> THEN [ok |-> TRUE, file |-> old]
    ELSE IF ~ok \/ ~p.ok \/ p.val < 0 \/ p.val > 100 THEN [ok |-> FALSE, file |-> old]
    ELSE [ok |-> TRUE, file |-> FileOf(SysfsShow(p.val))]

----------------------------------------------------------------------------
(* I/O events and outcomes of one operation *)

Ev(k, f, i) == [k |-> k, f |-> f, i |-> i]

\* the messages the program prints on stderr before sys.exit(1)
NoErr == "none"
ErrLimitPrivilege == "limit requires superuser"
ErrLimitRange == "limit must be between 50 and 100"
ErrSetLimit == "error setting the limit"
ErrReadLimit == "error reading the limit"
ErrNoBattery == "no supported battery found"
\* argparse rejects the command line: usage message, exit code 2
ErrUsage == "usage error"
UsageExit == 2
\* an exception nothing catches: traceback, exit code 1
ErrTraceback == "traceback"

\* the messages it prints on stdout
MsgSession == "limit set for the current session"
MsgSaved == "limit saved for next boot"

----------------------------------------------------------------------------
(* Hardware detection *)

BatPrefix == <<"B", "A", "T">>
PsNames == {<<"A", "C">>, <<"B", "A", "T", "0">>, <<"B", "A", "T", "1">>}
NoBattery == <<>>

\* d.startswith(p)
StartsWith(d, p) == Len(d) >= Len(p) /\ SubSeq(d, 1, Len(p)) = p

\* every order os.listdir may return the entries in
RECURSIVE Perms(_)
Perms(S) ==
    IF S = {} THEN {<<>>}
    ELSE UNION {{<<x>> \o p : p \in Perms(S \ {x})} : x \in S}

\* a plausible slip: the first BAT* entry is taken without looking for the
\* threshold file
find_supported_battery_first_bat(listing) ==
    IF ~psDir THEN NoBattery
    ELSE LET battery_dirs == SelectSeq(listing, LAMBDA d : StartsWith(d, BatPrefix))
         IN  IF battery_dirs = <<>> THEN NoBattery ELSE battery_dirs[1]

\* find_supported_battery(), given the order os.listdir returned
find_supported_battery(listing) ==
    IF ~psDir THEN NoBattery
    ELSE LET battery_dirs == SelectSeq(listing, LAMBDA d : StartsWith(d, BatPrefix))
             hits == SelectSeq(battery_dirs, LAMBDA d : thr[d].exists)
         IN  IF hits = <<>> THEN NoBattery ELSE hits[1]

\* what find_supported_battery() can return in run_cli()
FoundBatteries ==
    IF psDir THEN {find_supported_battery(pl) : pl \in Perms(psEnt)} ELSE {NoBattery}

----------------------------------------------------------------------------
(* Core battery functions.  Each returns its outcome: exit code, error,    *)
(* printed lines, the I/O it did, and the files as it leaves them.         *)

Outcome(exit, err, out, io, val, t, c) ==
    [exit |-> exit, err |-> err, out |-> out, io |-> io, val |-> val,
     thr |-> t, config |-> c]

NoVal == -1

\* a plausible slip: the privilege check is left out
NoPrivilegeCheck(euid) == FALSE

\* os.geteuid() != 0
NotRoot(euid) == euid # RootUid

\* a plausible slip: the upper end of the range is not checked
InRangeNoUpper(v) == MinLimit <= v

\* 50 <= limit_value <= 100
InRange(v) == MinLimit <= v /\ v <= MaxLimit

\* a plausible slip: the value read is cached in the config file
get_current_limit_caching(b) ==
    LET p == IntParse(Strip(thr[b].text))
        io == <<Ev("read", "thr", 0)>>
    IN  IF ~thr[b].exists \/ ~p.ok
        THEN Outcome(1, ErrReadLimit, <<>>, io, NoVal, thr, config)
        ELSE Outcome(0, NoErr, <<>>, io, p.val, thr, FileOf(NatStr(p.val)))

\* a plausible slip: a limit that cannot be read is reported as the default
get_current_limit_default(b) ==
    LET p == IntParse(Strip(thr[b].text))
        io == <<Ev("read", "thr", 0)>>
    IN  IF ~thr[b].exists \/ ~p.ok
        THEN Outcome(0, NoErr, <<>>, io, MaxLimit, thr, config)
        ELSE Outcome(0, NoErr, <<>>, io, p.val, thr, config)

\* get_current_limit(battery_path)
get_current_limit(b) ==
    LET p == IntParse(Strip(thr[b].text))
        io == <<Ev("read", "thr", 0)>>
    IN  IF ~thr[b].exists \/ ~p.ok
        THEN Outcome(1, ErrReadLimit, <<>>, io, NoVal, thr, config)
        ELSE Outcome(0, NoErr, <<>>, io, p.val, thr, config)

\* a plausible slip: the limit is saved before it is applied
set_charge_limit_save_first(limit_value, b, euid, thrOk, cfgIO) ==
    IF NotRoot(euid)
    THEN Outcome(1, ErrLimitPrivilege, <<>>, <<>>, NoVal, thr, config)
    ELSE IF ~InRange(limit_value)
    THEN Outcome(1, ErrLimitRange, <<>>, <<>>, NoVal, thr, config)
    ELSE LET w == SysfsThrWrite(thr[b], Str(limit_value), thrOk)
             c == ConfigWrite(config, Str(limit_value), cfgIO)
             ioC == <<Ev("write", "config", 0)>>
             ioT == ioC \o <<Ev("write", "thr", 0)>>
             t == [thr EXCEPT ![b] = w.file]
         IN  IF ~c.ok
             THEN Outcome(1, ErrSetLimit, <<>>, ioC, NoVal, thr, c.file)
             ELSE IF ~w.ok
             THEN Outcome(1, ErrSetLimit, <<MsgSaved>>, ioT, NoVal, thr, c.file)
             ELSE Outcome(0, NoErr, <<MsgSaved, MsgSession>>, ioT, NoVal, t, c.file)

\* set_charge_limit(limit_value, battery_path)
set_charge_limit(limit_value, b, euid, thrOk, cfgIO) ==
    IF NotRoot(euid)
    THEN Outcome(1, ErrLimitPrivilege, <<>>, <<>>, NoVal, thr, config)
    ELSE IF ~InRange(limit_value)
    THEN Outcome(1, ErrLimitRange, <<>>, <<>>, NoVal, thr, config)
    ELSE LET w == SysfsThrWrite(thr[b], Str(limit_value), thrOk)
             c == ConfigWrite(config, Str(limit_value), cfgIO)
             ioT == <<Ev("write", "thr", 0)>>
             ioC == ioT \o <<Ev("write", "config", 0)>>
             t == [thr EXCEPT ![b] = w.file]
         IN  IF ~w.ok
             THEN Outcome(1, ErrSetLimit, <<>>, ioT, NoVal, thr, config)
             ELSE IF ~c.ok
             THEN Outcome(1, ErrSetLimit, <<MsgSession>>, ioC, NoVal, t, c.file)
             ELSE Outcome(0, NoErr, <<MsgSession, MsgSaved>>, ioC, NoVal, t, c.file)

\* get_current_capacity(battery_path)
get_current_capacity(b) ==
    LET p == IntParse(Strip(cap[b].text)) IN
    IF ~cap[b].exists \/ ~p.ok THEN NoVal ELSE p.val

----------------------------------------------------------------------------
(* CPU governors.  A governor file is a sequence of lexemes: words and the *)
(* whitespace between them.                                                *)

ErrGovPrivilege == "governor requires superuser"
ErrNoGovernors == "could not detect available CPU governors"
ErrInvalidGovernor == "not a valid governor"
ErrNoCores == "could not find any CPU cores"
ErrSetGovernor == "error setting the CPU governor"
MsgSetting == "setting CPU governor"
MsgGovSet == "CPU governor successfully set"
NotAvailable == <<"not available">>

CpuPrefix == <<"c", "p", "u">>
CoreName(i) == CpuPrefix \o Str(i)
CoreNames == {CoreName(i) : i \in 0..(NumCores - 1)}
OtherCpuNames == {<<"c", "p", "u", "f", "r", "e", "q">>}
CpuNames == CoreNames \cup OtherCpuNames
CoreIdx(d) == NatVal(SubSeq(d, Len(CpuPrefix) + 1, Len(d)))
NoCore == <<>>

\* str.split()
Split(s) == SelectSeq(s, LAMBDA x : ~IsSpace(x))

\* re.match(r'cpu\d+', d): the pattern is matched at the start of the name
IsCoreDir(d) ==
    /\ StartsWith(d, CpuPrefix)
    /\ Len(d) > Len(CpuPrefix)
    /\ IsDigit(d[Len(CpuPrefix) + 1])

\* _get_cpu_cores(), given the order os.listdir returned
get_cpu_cores(listing) ==
    IF ~cpuDir THEN <<>> ELSE SelectSeq(listing, IsCoreDir)

\* a plausible slip: the text is not split into words
get_available_governors_nosplit ==
    IF ~avail.exists THEN <<>> ELSE Strip(avail.text)

\* get_available_governors()
get_available_governors ==
    IF ~avail.exists THEN <<>> ELSE Split(Strip(avail.text))

\* a plausible slip: a missing file yields the empty string
get_current_governor_empty ==
    IF ~gov[CoreName(0)].exists THEN <<>> ELSE Strip(gov[CoreName(0)].text)

\* get_current_governor()
get_current_governor ==
    IF ~gov[CoreName(0)].exists THEN NotAvailable ELSE Strip(gov[CoreName(0)].text)

\* The kernel side of scaling_governor: the name written is read back
\* followed by a newline.
SysfsGovWrite(old, name) == FileOf(<<name, "\n">>)

\* a plausible slip: the loop stops at the first core without a cpufreq file
RECURSIVE WriteGovsStopAtMissing(_, _, _, _, _)
WriteGovsStopAtMissing(cores, name, failCore, g, io) ==
    IF cores = <<>> \/ ~g[Head(cores)].exists THEN [ok |-> TRUE, gov |-> g, io |-> io]
    ELSE LET core == Head(cores)
             io2 == io \o <<Ev("write", "gov", CoreIdx(core))>>
         IN  IF core = failCore THEN [ok |-> FALSE, gov |-> g, io |-> io2]
             ELSE WriteGovsStopAtMissing(Tail(cores), name, failCore,
                      [g EXCEPT ![core] = SysfsGovWrite(g[core], name)], io2)

\* a plausible slip: a failed write is skipped and the loop goes on
RECURSIVE WriteGovsContinue(_, _, _, _, _)
WriteGovsContinue(cores, name, failCore, g, io) ==
    IF cores = <<>> THEN [ok |-> TRUE, gov |-> g, io |-> io]
    ELSE LET core == Head(cores)
             io2 == io \o <<Ev("write", "gov", CoreIdx(core))>>
         IN  IF ~g[core].exists
             THEN WriteGovsContinue(Tail(cores), name, failCore, g, io)
             ELSE IF core = failCore
             THEN [WriteGovsContinue(Tail(cores), name, failCore, g, io2)
                      EXCEPT !.ok = FALSE]
             ELSE WriteGovsContinue(Tail(cores), name, failCore,
                      [g EXCEPT ![core] = SysfsGovWrite(g[core], name)], io2)

\* the loop of set_cpu_governor over the cores, inside its try block: the
\* write to failCore raises, which ends the loop
RECURSIVE WriteGovs(_, _, _, _, _)
WriteGovs(cores, name, failCore, g, io) ==
    IF cores = <<>> THEN [ok |-> TRUE, gov |-> g, io |-> io]
    ELSE LET core == Head(cores)
             io2 == io \o <<Ev("write", "gov", CoreIdx(core))>>
         IN  IF ~g[core].exists
             THEN WriteGovs(Tail(cores), name, failCore, g, io)
             ELSE IF core = failCore
             THEN [ok |-> FALSE, gov |-> g, io |-> io2]
             ELSE WriteGovs(Tail(cores), name, failCore,
                      [g EXCEPT ![core] = SysfsGovWrite(g[core], name)], io2)

GovOutcome(exit, err, payload, out, io, g) ==
    [exit |-> exit, err |-> err, payload |-> payload, out |-> out, io |-> io,
     gov |-> g]

\* governor_name not in available
NotIn(name, available) == \A i \in 1..Len(available) : available[i] # name

\* a plausible slip: the governors are looked up before the privilege check
set_cpu_governor_avail_first(governor_name, euid, listing, failCore) ==
    LET available == get_available_governors
        ioA == <<Ev("read", "avail", 0)>>
        cores == get_cpu_cores(listing)
        w == WriteGovs(cores, governor_name, failCore, gov, ioA)
    IN  IF available = <<>>
        THEN GovOutcome(1, ErrNoGovernors, <<>>, <<>>, ioA, gov)
        ELSE IF NotRoot(euid)
        THEN GovOutcome(1, ErrGovPrivilege, <<>>, <<>>, ioA, gov)
        ELSE IF NotIn(governor_name, available)
        THEN GovOutcome(1, ErrInvalidGovernor, available, <<>>, ioA, gov)
        ELSE IF cores = <<>>
        THEN GovOutcome(1, ErrNoCores, <<>>, <<>>, ioA, gov)
        ELSE IF ~w.ok
        THEN GovOutcome(1, ErrSetGovernor, <<>>, <<MsgSetting>>, w.io, w.gov)
        ELSE GovOutcome(0, NoErr, <<>>, <<MsgSetting, MsgGovSet>>, w.io, w.gov)

\* set_cpu_governor(governor_name)
set_cpu_governor(governor_name, euid, listing, failCore) ==
    LET available == get_available_governors
        ioA == <<Ev("read", "avail", 0)>>
        cores == get_cpu_cores(listing)
        w == WriteGovs(cores, governor_name, failCore, gov, ioA)
    IN  IF NotRoot(euid)
        THEN GovOutcome(1, ErrGovPrivilege, <<>>, <<>>, <<>>, gov)
        ELSE IF available = <<>>
        THEN GovOutcome(1, ErrNoGovernors, <<>>, <<>>, ioA, gov)
        ELSE IF NotIn(governor_name, available)
        THEN GovOutcome(1, ErrInvalidGovernor, available, <<>>, ioA, gov)
        ELSE IF cores = <<>>
        THEN GovOutcome(1, ErrNoCores, <<>>, <<>>, ioA, gov)
        ELSE IF ~w.ok
        THEN GovOutcome(1, ErrSetGovernor, <<>>, <<MsgSetting>>, w.io, w.gov)
        ELSE GovOutcome(0, NoErr, <<>>, <<MsgSetting, MsgGovSet>>, w.io, w.gov)

----------------------------------------------------------------------------
(* Boot-time reapplication, install, uninstall *)

DefaultLimitText == <<"1", "0", "0">>

\* a plausible slip: the default limit is written instead of the stored one
apply_on_boot_default(cfg, b, readOk, thrOk) ==
    LET w == SysfsThrWrite(thr[b], DefaultLimitText, thrOk)
        ioR == <<Ev("read", "config", 0)>>
    IN  IF ~cfg.exists \/ ~readOk \/ b = NoBattery
        THEN [thr |-> thr, io |-> <<>>, raised |-> FALSE, escaped |-> FALSE,
              applied |-> FALSE, bat |-> NoBattery]
        ELSE [thr |-> [thr EXCEPT ![b] = w.file],
              io |-> ioR \o <<Ev("write", "thr", 0)>>,
              raised |-> ~w.ok,
              escaped |-> FALSE,
              applied |-> w.ok,
              bat |-> b]

\* a plausible slip: with no config file the default limit is applied
apply_on_boot_no_config_default(cfg, b, readOk, thrOk) ==
    LET limit == IF cfg.exists THEN Strip(cfg.text) ELSE DefaultLimitText
        w == SysfsThrWrite(thr[b], limit, thrOk)
        ioR == <<Ev("read", "config", 0)>>
    IN  IF cfg.exists /\ ~readOk
        THEN [thr |-> thr, io |-> ioR, raised |-> TRUE, escaped |-> FALSE,
              applied |-> FALSE, bat |-> NoBattery]
        ELSE IF b = NoBattery
        THEN [thr |-> thr, io |-> ioR, raised |-> FALSE, escaped |-> FALSE,
              applied |-> FALSE, bat |-> b]
        ELSE [thr |-> [thr EXCEPT ![b] = w.file],
              io |-> ioR \o <<Ev("write", "thr", 0)>>,
              raised |-> ~w.ok,
              escaped |-> FALSE,
              applied |-> w.ok /\ limit # <<>>,
              bat |-> b]

\* a plausible slip: the try block is missing and an exception leaves the
\* function
apply_on_boot_unguarded(cfg, b, readOk, thrOk) ==
    LET limit == Strip(cfg.text)
        w == SysfsThrWrite(thr[b], limit, thrOk)
        ioR == <<Ev("read", "config", 0)>>
    IN  IF ~cfg.exists
        THEN [thr |-> thr, io |-> <<>>, raised |-> FALSE, escaped |-> FALSE,
              applied |-> FALSE, bat |-> NoBattery]
        ELSE IF ~readOk
        THEN [thr |-> thr, io |-> ioR, raised |-> TRUE, escaped |-> TRUE,
              applied |-> FALSE, bat |-> NoBattery]
        ELSE IF b = NoBattery
        THEN [thr |-> thr, io |-> ioR, raised |-> FALSE, escaped |-> FALSE,
              applied |-> FALSE, bat |-> b]
        ELSE [thr |-> [thr EXCEPT ![b] = w.file],
              io |-> ioR \o <<Ev("write", "thr", 0)>>,
              raised |-> ~w.ok,
              escaped |-> ~w.ok,
              applied |-> w.ok /\ limit # <<>>,
              bat |-> b]

\* _apply_on_boot(), with cfg the config file it finds and b what
\* find_supported_battery() returns: every exception is swallowed (raised
\* records that one was, escaped that one left the function); applied says
\* the stored limit was written and the kernel took it
apply_on_boot(cfg, b, readOk, thrOk) ==
    LET limit == Strip(cfg.text)
        w == SysfsThrWrite(thr[b], limit, thrOk)
        ioR == <<Ev("read", "config", 0)>>
    IN  IF ~cfg.exists
        THEN [thr |-> thr, io |-> <<>>, raised |-> FALSE, escaped |-> FALSE,
              applied |-> FALSE, bat |-> NoBattery]
        ELSE IF ~readOk
        THEN [thr |-> thr, io |-> ioR, raised |-> TRUE, escaped |-> FALSE,
              applied |-> FALSE, bat |-> NoBattery]
        ELSE IF b = NoBattery
        THEN [thr |-> thr, io |-> ioR, raised |-> FALSE, escaped |-> FALSE,
              applied |-> FALSE, bat |-> b]
        ELSE [thr |-> [thr EXCEPT ![b] = w.file],
              io |-> ioR \o <<Ev("write", "thr", 0)>>,
              raised |-> ~w.ok,
              escaped |-> FALSE,
              applied |-> w.ok /\ limit # <<>>,
              bat |-> b]

ErrInstallPrivilege == "installation requires superuser"
ErrUninstallPrivilege == "uninstallation requires superuser"
ErrInstall == "error during installation"
SysctlModes == {"ok", "first_fails", "second_fails"}

\* install(): the service file, the default config, then systemctl
\* daemon-reload and enable --now, which starts the unit: the unit runs
\* _apply_on_boot
install(svcOk, cfgIO, sysctl) ==
    LET c == IF config.exists THEN [ok |-> TRUE, file |-> config]
             ELSE ConfigWrite(config, DefaultLimitText, cfgIO)
        ioS == <<Ev("write", "service", 0)>>
        ioC == IF config.exists THEN ioS ELSE ioS \o <<Ev("write", "config", 0)>>
    IN  IF ~svcOk
        THEN [exit |-> 1, err |-> ErrInstall, io |-> ioS, svc |-> svcFile,
              config |-> config, start |-> FALSE]
        ELSE IF ~c.ok
        THEN [exit |-> 1, err |-> ErrInstall, io |-> ioC, svc |-> TRUE,
              config |-> c.file, start |-> FALSE]
        ELSE IF sysctl # "ok"
        THEN [exit |-> 1, err |-> ErrInstall, io |-> ioC, svc |-> TRUE,
              config |-> c.file, start |-> FALSE]
        ELSE [exit |-> 0, err |-> NoErr, io |-> ioC, svc |-> TRUE,
              config |-> c.file, start |-> TRUE]

\* uninstall(): removes the service, then resets the live limit to 100; the
\* config file is left in place
uninstall(sysctl, b, thrOk) ==
    LET w == SysfsThrWrite(thr[b], DefaultLimitText, thrOk)
        svc == IF svcFile /\ sysctl # "first_fails" THEN FALSE ELSE svcFile
    IN  IF b = NoBattery
        THEN [svc |-> svc, thr |-> thr, io |-> <<>>, bat |-> b]
        ELSE [svc |-> svc, thr |-> [thr EXCEPT ![b] = w.file],
              io |-> <<Ev("write", "thr", 0)>>, bat |-> b]

----------------------------------------------------------------------------
(* Inputs *)

Euids == {RootUid, 1000}
\* the arguments tried: both ends of the range, a value inside, and Slack
\* values beyond each end
LimitArgs == ((MinLimit - Slack)..MinLimit) \cup {75} \cup (MaxLimit..(MaxLimit + Slack))
\* the command-line argument is text: these numbers, and a word
NotANumber == <<"a", "b", "c">>
LimitArgTexts == {NatStr(v) : v \in LimitArgs} \cup {NotANumber}
\* argparse, type=int: int(text), a ValueError being a usage error
parse_limit(a) == IntParse(a)
Governors == {"performance", "powersave"}
GovArgs == Governors \cup {"bogus"}
\* the governor the kernel starts every core with
BootGovernor == "powersave"
\* what the firmware leaves in charge_control_end_threshold after a reboot
ResetLimits == {0, MaxLimit}

\* the entries of the cpu directory by name
AscListing ==
    [i \in 1..NumCores |-> CoreName(i - 1)] \o <<CHOOSE d \in OtherCpuNames : TRUE>>

Rotate(s, k) == SubSeq(s, k + 1, Len(s)) \o SubSeq(s, 1, k)
Reverse(s) == [i \in 1..Len(s) |-> s[Len(s) + 1 - i]]

\* os.listdir returns the entries of a directory in arbitrary order.  For
\* the power-supply directory every order is tried (FoundBatteries); for the
\* cpu directory three: ascending by name, ascending from the second entry on with the
\* first one last, and descending.
CpuListings ==
    IF ~cpuDir THEN {<<>>}
    ELSE {AscListing, Rotate(AscListing, 1), Reverse(AscListing)}

----------------------------------------------------------------------------
(* The record of the last operation: its inputs and its outcome.  The      *)
(* fields afterSet, afterReboot and afterSame say what the operation       *)
(* before it was.                                                          *)

Blank ==
    [op |-> "init", euid |-> RootUid, limit |-> NoVal, name |-> "", bat |-> NoBattery,
     exit |-> 0, err |-> NoErr, payload |-> <<>>, out |-> <<>>, io |-> <<>>,
     val |-> NoVal, cap |-> NoVal, sval |-> <<>>,
     thrOk |-> TRUE, cfgIO |-> "ok", failCore |-> NoCore, raised |-> FALSE, applied |-> FALSE,
     afterSet |-> FALSE, afterReboot |-> FALSE, afterSame |-> FALSE]

\* run_cli() when find_supported_battery() returns None
NoBatteryExit(op, euid) ==
    [Blank EXCEPT !.op = op, !.euid = euid, !.exit = 1, !.err = ErrNoBattery]

\* the operation before was a set_charge_limit on battery b that exited 0
AfterSet(b) == last.op = "battery set" /\ last.exit = 0 /\ last.bat = b

\* the operation before was the same command and found the same battery
AfterSame(op, b) == last.op = op /\ last.bat = b

----------------------------------------------------------------------------
(* Initial states: the machine before the program has run *)

GovText(g) == <<g, "\n">>
AvailText == <<"performance", " ", "powersave", "\n">>
AC == <<"A", "C">>
BAT0 == <<"B", "A", "T", "0">>
BAT1 == <<"B", "A", "T", "1">>

\* the power-supply side: no directory; no supported battery; one supported
\* battery; an unsupported and a supported battery; two supported batteries
InitPs ==
    /\ \/ psDir = FALSE /\ psEnt = {}
       \/ psDir = TRUE /\ psEnt \in {{AC, BAT0}, {AC, BAT0, BAT1}}
    /\ \E sup \in {{}, {BAT1}, psEnt \cap {BAT0, BAT1}} :
          /\ sup \subseteq psEnt
          /\ thr = [d \in PsNames |->
                      IF d \in sup THEN FileOf(SysfsShow(MaxLimit)) ELSE NoFile]
          /\ cap = [d \in PsNames |->
                      IF d \in sup /\ d = BAT0 THEN FileOf(<<"4", "2", "\n">>)
                      ELSE NoFile]
    /\ config = NoFile
    /\ svcFile = FALSE

\* the cpu side: no directory; every core with cpufreq; one core without;
\* scaling_available_governors present, empty or missing
InitCpuSide ==
    /\ cpuDir \in BOOLEAN
    /\ cpuEnt = IF cpuDir THEN CpuNames ELSE {}
    /\ \E freq \in {CoreNames, {}} \cup {CoreNames \ {c} : c \in CoreNames} :
          /\ cpuDir \/ freq = {}
          /\ gov = [d \in CpuNames |->
                      IF d \in freq THEN FileOf(GovText(BootGovernor)) ELSE NoFile]
          /\ avail \in IF freq = CoreNames THEN {NoFile, FileOf(<<>>), FileOf(AvailText)}
                       ELSE IF CoreName(0) \in freq THEN {FileOf(AvailText)}
                       ELSE {NoFile}

Init ==
    /\ InitPs
    /\ InitCpuSide
    /\ last = Blank
    /\ lastSet = NoVal

----------------------------------------------------------------------------
(* Actions: one per process invocation *)

\* ampurr battery set <limit>: parse_args() turns the argument into an
\* integer or ends the process with a usage error
BatterySet ==
    \E a \in LimitArgTexts, euid \in Euids :
    \E p \in {parse_limit(a)} :
    \E b \in IF p.ok THEN FoundBatteries ELSE {NoBattery} :
    \E v \in {p.val} :
       /\ IF ~p.ok
          THEN /\ last' = [Blank EXCEPT !.op = "battery set", !.euid = euid,
                              !.exit = UsageExit, !.err = ErrUsage]
               /\ UNCHANGED <<thr, config, lastSet>>
          ELSE IF b = NoBattery
          THEN /\ last' = [NoBatteryExit("battery set", euid) EXCEPT !.limit = v]
               /\ UNCHANGED <<thr, config, lastSet>>
          ELSE \E thrOk \in IF NotRoot(euid) \/ ~InRange(v) THEN {TRUE} ELSE BOOLEAN :
               \E cfgIO \in IF NotRoot(euid) \/ ~InRange(v) \/ ~thrOk THEN {"ok"}
                            ELSE CfgModes :
               \E r \in {set_charge_limit(v, b, euid, thrOk, cfgIO)} :
                  /\ thr' = r.thr
                  /\ config' = r.config
                  /\ lastSet' = IF r.exit = 0 THEN v ELSE lastSet
                  /\ last' = [Blank EXCEPT !.op = "battery set", !.euid = euid,
                                 !.limit = v, !.bat = b, !.exit = r.exit,
                                 !.err = r.err, !.out = r.out, !.io = r.io,
                                 !.thrOk = thrOk, !.cfgIO = cfgIO]
       /\ UNCHANGED <<psDir, psEnt, cap, svcFile, cpuVars>>

\* ampurr battery get
BatteryGet ==
    \E euid \in Euids, b \in FoundBatteries :
       /\ IF b = NoBattery
          THEN /\ last' = NoBatteryExit("battery get", euid)
               /\ UNCHANGED <<thr, config>>
          ELSE \E r \in {get_current_limit(b)} :
                  /\ thr' = r.thr
                  /\ config' = r.config
                  /\ last' = [Blank EXCEPT !.op = "battery get", !.euid = euid,
                                 !.bat = b, !.exit = r.exit, !.err = r.err,
                                 !.io = r.io, !.val = r.val,
                                 !.afterSet = AfterSet(b),
                                 !.afterSame = AfterSame("battery get", b)]
       /\ UNCHANGED <<psDir, psEnt, cap, svcFile, cpuVars, lastSet>>

\* ampurr battery status
BatteryStatus ==
    \E euid \in Euids, b \in FoundBatteries :
       /\ IF b = NoBattery
          THEN /\ last' = NoBatteryExit("battery status", euid)
               /\ UNCHANGED <<thr, config>>
          ELSE \E r \in {get_current_limit(b)} :
                  /\ thr' = r.thr
                  /\ config' = r.config
                  /\ last' = [Blank EXCEPT !.op = "battery status", !.euid = euid,
                                 !.bat = b, !.exit = r.exit, !.err = r.err,
                                 !.io = r.io, !.val = r.val,
                                 !.cap = IF r.exit = 0 THEN get_current_capacity(b)
                                         ELSE NoVal,
                                 !.afterSame = AfterSame("battery status", b)]
       /\ UNCHANGED <<psDir, psEnt, cap, svcFile, cpuVars, lastSet>>

\* ampurr cpu set <governor>
CpuSet ==
    \E name \in GovArgs, euid \in Euids, b \in FoundBatteries :
       IF b = NoBattery
       THEN /\ last' = [NoBatteryExit("cpu set", euid) EXCEPT !.name = name]
            /\ UNCHANGED <<batVars, cpuVars, lastSet>>
       ELSE \E cl \in IF NotRoot(euid) \/ NotIn(name, get_available_governors)
                      THEN {<<>>} ELSE CpuListings :
            \E failCore \in IF cl = <<>> THEN {NoCore} ELSE CoreNames \cup {NoCore} :
            \E r \in {set_cpu_governor(name, euid, cl, failCore)} :
               /\ gov' = r.gov
               /\ last' = [Blank EXCEPT !.op = "cpu set", !.euid = euid,
                              !.name = name, !.bat = b, !.exit = r.exit,
                              !.err = r.err, !.payload = r.payload,
                              !.out = r.out, !.io = r.io,
                              !.failCore = IF r.err = ErrSetGovernor THEN failCore
                                           ELSE NoCore]
               /\ UNCHANGED <<batVars, cpuDir, cpuEnt, avail, lastSet>>

\* a plausible slip: the cpu commands are dispatched before the battery is
\* looked for
CpuStatusNoBatteryCheck ==
    \E euid \in Euids, b \in FoundBatteries :
       /\ last' = [Blank EXCEPT !.op = "cpu status", !.euid = euid, !.bat = b,
                      !.io = <<Ev("read", "gov", 0)>>,
                      !.sval = get_current_governor]
       /\ UNCHANGED <<batVars, cpuVars, lastSet>>

\* ampurr cpu status
CpuStatus ==
    \E euid \in Euids, b \in FoundBatteries :
       /\ last' = IF b = NoBattery THEN NoBatteryExit("cpu status", euid)
                  ELSE [Blank EXCEPT !.op = "cpu status", !.euid = euid, !.bat = b,
                           !.io = <<Ev("read", "gov", 0)>>,
                           !.sval = get_current_governor,
                           !.afterSame = AfterSame("cpu status", b)]
       /\ UNCHANGED <<batVars, cpuVars, lastSet>>

\* ampurr cpu list
CpuList ==
    \E euid \in Euids, b \in FoundBatteries :
       /\ last' = IF b = NoBattery THEN NoBatteryExit("cpu list", euid)
                  ELSE [Blank EXCEPT !.op = "cpu list", !.euid = euid, !.bat = b,
                           !.io = <<Ev("read", "avail", 0)>>,
                           !.sval = get_available_governors,
                           !.afterSame = AfterSame("cpu list", b)]
       /\ UNCHANGED <<batVars, cpuVars, lastSet>>

\* ampurr --apply-on-boot (the systemd unit runs it as root): _apply_on_boot()
\* and then sys.exit(0); an exception that left _apply_on_boot would end the
\* process with a traceback and exit code 1
ApplyOnBoot ==
    \E b \in FoundBatteries, readOk \in BOOLEAN, thrOk \in BOOLEAN :
    \E r \in {apply_on_boot(config, b, readOk, thrOk)} :
       /\ thr' = r.thr
       /\ last' = [Blank EXCEPT !.op = "apply on boot", !.bat = r.bat, !.io = r.io,
                      !.exit = IF r.escaped THEN 1 ELSE 0,
                      !.err = IF r.escaped THEN ErrTraceback ELSE NoErr,
                      !.raised = r.raised, !.applied = r.applied,
                      !.afterReboot = (last.op = "reboot")]
       /\ UNCHANGED <<psDir, psEnt, cap, config, svcFile, cpuVars, lastSet>>

\* ampurr --install
Install ==
    \E euid \in Euids :
       IF NotRoot(euid)
       THEN /\ last' = [Blank EXCEPT !.op = "install", !.euid = euid,
                           !.exit = 1, !.err = ErrInstallPrivilege]
            /\ UNCHANGED <<batVars, cpuVars, lastSet>>
       ELSE \E svcOk \in BOOLEAN, cfgIO \in CfgModes, sysctl \in {"ok", "first_fails"} :
            \E r \in {install(svcOk, cfgIO, sysctl)} :
            \E b \in IF r.start THEN FoundBatteries ELSE {NoBattery} :
            \E thrOk \in IF r.start /\ b # NoBattery THEN BOOLEAN ELSE {TRUE} :
            \E a \in {apply_on_boot(r.config, b, TRUE, thrOk)} :
               /\ svcFile' = r.svc
               /\ config' = r.config
               /\ thr' = IF r.start THEN a.thr ELSE thr
               /\ last' = [Blank EXCEPT !.op = "install", !.euid = euid,
                              !.exit = r.exit, !.err = r.err,
                              !.io = IF r.start THEN r.io \o a.io ELSE r.io,
                              !.applied = r.start /\ a.applied]
               /\ UNCHANGED <<psDir, psEnt, cap, cpuVars, lastSet>>

\* ampurr --uninstall
Uninstall ==
    \E euid \in Euids :
       IF NotRoot(euid)
       THEN /\ last' = [Blank EXCEPT !.op = "uninstall", !.euid = euid,
                           !.exit = 1, !.err = ErrUninstallPrivilege]
            /\ UNCHANGED <<batVars, cpuVars, lastSet>>
       ELSE \E sysctl \in SysctlModes, b \in FoundBatteries, thrOk \in BOOLEAN :
            \E r \in {uninstall(sysctl, b, thrOk)} :
               /\ svcFile' = r.svc
               /\ thr' = r.thr
               /\ last' = [Blank EXCEPT !.op = "uninstall", !.euid = euid,
                              !.bat = r.bat, !.io = r.io]
               /\ UNCHANGED <<psDir, psEnt, cap, config, cpuVars, lastSet>>

\* The machine reboots: sysfs values do not survive it
Reboot ==
    \E r \in ResetLimits :
       /\ thr' = [d \in PsNames |->
                    IF thr[d].exists THEN FileOf(SysfsShow(r)) ELSE NoFile]
       /\ gov' = [d \in CpuNames |->
                    IF gov[d].exists THEN FileOf(GovText(BootGovernor)) ELSE NoFile]
       /\ last' = [Blank EXCEPT !.op = "reboot"]
       /\ UNCHANGED <<psDir, psEnt, cap, config, svcFile, cpuDir, cpuEnt, avail, lastSet>>

\* every operation, on every machine
Next ==
    \/ BatterySet
    \/ BatteryGet
    \/ BatteryStatus
    \/ CpuSet
    \/ CpuStatus
    \/ CpuList
    \/ ApplyOnBoot
    \/ Install
    \/ Uninstall
    \/ Reboot

Spec == Init /\ [][Next]_vars

\* a machine whose cpu side is fully supported
CpuSupported ==
    /\ cpuDir
    /\ \A c \in CoreNames : gov[c].exists
    /\ avail = FileOf(AvailText)

\* a machine with one supported battery
OneBattery == psEnt = {AC, BAT0} /\ thr[BAT0].exists

\* The battery half: the operations that touch the battery or the config
NextBattery ==
    \/ BatterySet
    \/ BatteryGet
    \/ BatteryStatus
    \/ ApplyOnBoot
    \/ Install
    \/ Uninstall
    \/ Reboot

InitBattery == Init /\ CpuSupported

SpecBattery == InitBattery /\ [][NextBattery]_vars

\* The cpu half: the operations that touch the governors
NextCpu ==
    \/ CpuSet
    \/ CpuStatus
    \/ CpuList
    \/ Reboot

InitCpu == Init /\ OneBattery

SpecCpu == InitCpu /\ [][NextCpu]_vars

\* The two privileged write commands together
NextWrites ==
    \/ BatterySet
    \/ CpuSet
    \/ Reboot

InitWrites == Init /\ OneBattery /\ CpuSupported

SpecWrites == InitWrites /\ [][NextWrites]_vars

\* The six commands of the command line, on a machine with one supported
\* battery and on one without /sys/class/power_supply/
NextCli ==
    \/ BatterySet
    \/ BatteryGet
    \/ BatteryStatus
    \/ CpuSet
    \/ CpuStatus
    \/ CpuList

InitCli == Init /\ CpuSupported /\ (~psDir \/ OneBattery)

SpecCli == InitCli /\ [][NextCli]_vars

\* The read functions applied to a battery directory, whatever its files
\* hold: a number, a number with blanks around it, a negative number, a
\* word, nothing, or no file at all
ThrFiles ==
    {NoFile, FileOf(SysfsShow(MaxLimit)), FileOf(<<" ", "7", "5", " ", "\n">>),
     FileOf(<<"-", "5", "\n">>), FileOf(<<"a", "b", "c", "\n">>), FileOf(<<>>)}
CapFiles ==
    {NoFile, FileOf(<<"4", "2", "\n">>), FileOf(<<"a", "b", "c", "\n">>), FileOf(<<>>)}

\* get_current_limit(battery_path) called on a battery directory
GetCurrentLimit ==
    \E b \in {d \in psEnt : StartsWith(d, BatPrefix)} :
    \E r \in {get_current_limit(b)} :
       /\ thr' = r.thr
       /\ config' = r.config
       /\ last' = [Blank EXCEPT !.op = "get_current_limit", !.bat = b,
                      !.exit = r.exit, !.err = r.err, !.io = r.io, !.val = r.val]
       /\ UNCHANGED <<psDir, psEnt, cap, svcFile, cpuVars, lastSet>>

\* get_current_capacity(battery_path) called on a battery directory
GetCurrentCapacity ==
    \E b \in {d \in psEnt : StartsWith(d, BatPrefix)} :
       /\ last' = [Blank EXCEPT !.op = "get_current_capacity", !.bat = b,
                      !.cap = get_current_capacity(b)]
       /\ UNCHANGED <<batVars, cpuVars, lastSet>>

NextRead ==
    \/ GetCurrentLimit
    \/ GetCurrentCapacity
    \/ BatteryGet
    \/ BatteryStatus

InitRead ==
    /\ psDir = TRUE
    /\ psEnt = {AC, BAT0}
    /\ \E t \in ThrFiles : thr = [d \in PsNames |-> IF d = BAT0 THEN t ELSE NoFile]
    /\ \E c \in CapFiles : cap = [d \in PsNames |-> IF d = BAT0 THEN c ELSE NoFile]
    /\ config = NoFile
    /\ svcFile = FALSE
    /\ InitCpuSide
    /\ CpuSupported
    /\ last = Blank
    /\ lastSet = NoVal

SpecRead == InitRead /\ [][NextRead]_vars

----------------------------------------------------------------------------
(* Properties *)

LiveLimit(b) == IntParse(Strip(thr[b].text))
SavedLimit == IntParse(Strip(config.text))
GovWrites(io) == SelectSeq(io, LAMBDA e : e.k = "write" /\ e.f = "gov")

\* C1: for every v in 50..100, a privileged set_charge_limit(v) whose writes
\* succeed, followed by get_current_limit on the same battery, returns
\* exactly v, and the config file then holds v.
C1_RoundTrip ==
    [][(/\ last.op = "battery set" /\ last.exit = 0
        /\ last'.op = "battery get" /\ last'.bat = last.bat)
       => (/\ last.euid = RootUid
           /\ MinLimit <= last.limit /\ last.limit <= MaxLimit
           /\ last'.exit = 0
           /\ last'.val = last.limit
           /\ config.exists
           /\ SavedLimit = [ok |-> TRUE, val |-> last.limit])]_vars

C1_Witness ==
    /\ last.op = "battery get" /\ last.afterSet
    /\ last.exit = 0 /\ last.val = lastSet /\ last.val = 75
    /\ SavedLimit.val = 75

\* C2 as stated: for every v below 50 or above 100, set_charge_limit(v)
\* fails with the range error before any I/O and leaves the live limit and
\* the config file unchanged.
C2_AsStated ==
    [][(/\ last'.op = "battery set" /\ last'.bat # NoBattery
        /\ (last'.limit < MinLimit \/ last'.limit > MaxLimit))
       => (/\ last'.exit = 1 /\ last'.err = ErrLimitRange
           /\ last'.io = <<>>
           /\ thr' = thr /\ config' = config)]_vars

\* C2, amended: for every v below 50 or above 100, set_charge_limit(v) called
\* with elevated privilege fails with the range error before any I/O and
\* leaves the live limit and the config file unchanged.
C2_RangeError ==
    [][(/\ last'.op = "battery set" /\ last'.bat # NoBattery
        /\ last'.euid = RootUid
        /\ (last'.limit < MinLimit \/ last'.limit > MaxLimit))
       => (/\ last'.exit = 1 /\ last'.err = ErrLimitRange
           /\ last'.io = <<>>
           /\ thr' = thr /\ config' = config)]_vars

C2_Witness ==
    /\ last.op = "battery set" /\ last.euid = RootUid
    /\ last.limit > MaxLimit
    /\ last.err = ErrLimitRange /\ last.exit = 1
    /\ config.exists

\* C3: set_charge_limit and set_cpu_governor called without elevated
\* privilege fail with the permission error for every argument and write
\* nothing: the live limit, the config file and every governor are unchanged,
\* and no check before the permission check reads or writes a file.
C3_Unprivileged ==
    [][(/\ last'.op \in {"battery set", "cpu set"} /\ last'.bat # NoBattery
        /\ last'.euid # RootUid)
       => (/\ last'.exit = 1
           /\ last'.err = IF last'.op = "battery set" THEN ErrLimitPrivilege
                          ELSE ErrGovPrivilege
           /\ last'.io = <<>>
           /\ thr' = thr /\ config' = config /\ gov' = gov)]_vars

C3_Witness ==
    /\ last.op = "cpu set" /\ last.euid # RootUid /\ last.name = "bogus"
    /\ last.err = ErrGovPrivilege /\ last.io = <<>>
    /\ config.exists

\* C4: if the sysfs write in set_charge_limit fails, the operation fails with
\* the write error and the config file holds what it held before the call.
C4_SysfsWriteFails ==
    [][(last'.op = "battery set" /\ ~last'.thrOk)
       => (/\ last'.exit = 1 /\ last'.err = ErrSetLimit
           /\ config' = config
           /\ thr' = thr)]_vars

C4_Witness ==
    /\ last.op = "battery set" /\ ~last.thrOk /\ last.err = ErrSetLimit
    /\ config.exists /\ SavedLimit.val # last.limit

\* C5: if the sysfs write succeeds and the config write fails, the operation
\* reports an error other than the write error of a failed sysfs write, the
\* live limit is the new value and the config file keeps the old content.
C5_PersistenceWarning ==
    [][(last'.op = "battery set" /\ last'.thrOk /\ last'.cfgIO # "ok")
       => (/\ last'.err # ErrSetLimit
           /\ IntParse(Strip(thr'[last'.bat].text)) = [ok |-> TRUE, val |-> last'.limit]
           /\ config' = config)]_vars

CoreIds == 0..(NumCores - 1)
HoldsGovernor(f, name) == f.exists /\ Strip(f.text) = <<name>>
AvailWords == {avail.text[i] : i \in 1..Len(avail.text)} \ SpaceChars

\* C7 as stated: a failed governor write aborts the fan-out with no rollback
\* (cores visited before the failing one hold the new governor, the failing
\* core and the ones after it keep theirs, exit 1); and on a 4-core system
\* where core 2's write fails, cores 0-1 show the new value and cores 2-3
\* the old one.
C7_AsStated ==
    [][(/\ last'.op = "cpu set" /\ last'.err = ErrSetGovernor
        /\ last'.failCore = CoreName(2)
        /\ NumCores = 4 /\ \A c \in CoreIds : gov[CoreName(c)].exists)
       => (/\ last'.exit = 1
           /\ HoldsGovernor(gov'[CoreName(0)], last'.name)
           /\ HoldsGovernor(gov'[CoreName(1)], last'.name)
           /\ gov'[CoreName(2)] = gov[CoreName(2)]
           /\ gov'[CoreName(3)] = gov[CoreName(3)])]_vars

\* C7, amended: a failed governor write aborts the fan-out with no rollback:
\* every core with a governor file that the directory listing put before the
\* failing one holds the new governor, the failing core and every other core
\* keep theirs, and the operation exits 1.  Which cores come before the
\* failing one is decided by the order os.listdir returns, not by the core
\* numbers.
C7_AbortAtFirstError ==
    [][(last'.op = "cpu set" /\ last'.err = ErrSetGovernor)
       => LET w == GovWrites(last'.io)
              done == {w[k].i : k \in 1..(Len(w) - 1)}
          IN  /\ last'.exit = 1
              /\ Len(w) >= 1
              /\ CoreName(w[Len(w)].i) = last'.failCore
              /\ \A c \in CoreIds :
                    IF c \in done
                    THEN HoldsGovernor(gov'[CoreName(c)], last'.name)
                    ELSE gov'[CoreName(c)] = gov[CoreName(c)]]_vars

C7_Witness ==
    /\ last.op = "cpu set" /\ last.err = ErrSetGovernor
    /\ last.failCore = CoreName(2)
    /\ Len(GovWrites(last.io)) >= 2
    /\ HoldsGovernor(gov[CoreName(GovWrites(last.io)[1].i)], last.name)
    /\ ~HoldsGovernor(gov[CoreName(2)], last.name)

\* C8: when a privileged set_cpu_governor(name) with a valid name reports
\* success, every core that had a scaling_governor file holds name, and a
\* core without the file is skipped: no file appears for it and the cores
\* listed after it are still written.
C8_AllCoresSet ==
    [][(last'.op = "cpu set" /\ last'.exit = 0)
       => (/\ last'.euid = RootUid
           /\ last'.name \in AvailWords
           /\ \A c \in CoreIds :
                 IF gov[CoreName(c)].exists
                 THEN HoldsGovernor(gov'[CoreName(c)], last'.name)
                 ELSE gov'[CoreName(c)] = NoFile
           /\ \A d \in OtherCpuNames : gov'[d] = gov[d])]_vars

C8_Witness ==
    /\ last.op = "cpu set" /\ last.exit = 0 /\ last.name # BootGovernor
    /\ ~gov[CoreName(1)].exists
    /\ Len(GovWrites(last.io)) = NumCores - 1
    /\ GovWrites(last.io)[1].i = 0
    /\ GovWrites(last.io)[2].i = 2
    /\ HoldsGovernor(gov[CoreName(2)], last.name)

\* C9: a privileged set_cpu_governor(name) with name not among the available
\* governors (and that set not empty) fails with the invalid-governor error
\* whose payload lists exactly the available governors, and writes to no
\* governor file.
C9_InvalidGovernor ==
    [][(/\ last'.op = "cpu set" /\ last'.bat # NoBattery
        /\ last'.euid = RootUid
        /\ AvailWords # {} /\ last'.name \notin AvailWords)
       => (/\ last'.exit = 1 /\ last'.err = ErrInvalidGovernor
           /\ {last'.payload[i] : i \in 1..Len(last'.payload)} = AvailWords
           /\ Len(last'.payload) = Cardinality(AvailWords)
           /\ GovWrites(last'.io) = <<>>
           /\ gov' = gov)]_vars

C9_Witness ==
    /\ last.op = "cpu set" /\ last.euid = RootUid /\ last.name = "bogus"
    /\ last.err = ErrInvalidGovernor
    /\ last.payload = <<"performance", "powersave">>

\* C10: set_cpu_governor checks privilege, then that the available-governor
\* set is not empty, then that name is in it; the error reported is that of
\* the first check that fails, and then no governor file is written.
C10_CheckOrder ==
    [][(last'.op = "cpu set" /\ last'.bat # NoBattery)
       => (/\ last'.euid # RootUid => last'.err = ErrGovPrivilege
           /\ (last'.euid = RootUid /\ AvailWords = {})
                 => last'.err = ErrNoGovernors
           /\ (last'.euid = RootUid /\ AvailWords # {} /\ last'.name \notin AvailWords)
                 => last'.err = ErrInvalidGovernor
           /\ last'.err \in {ErrGovPrivilege, ErrNoGovernors, ErrInvalidGovernor}
                 => (/\ last'.exit = 1
                     /\ GovWrites(last'.io) = <<>>
                     /\ gov' = gov))]_vars

C10_Witness ==
    /\ last.op = "cpu set" /\ last.euid # RootUid /\ last.name = "bogus"
    /\ AvailWords = {}
    /\ last.err = ErrGovPrivilege

Qualifies(d) == d \in psEnt /\ StartsWith(d, BatPrefix) /\ thr[d].exists
CliOps == {"battery set", "battery get", "battery status",
           "cpu set", "cpu status", "cpu list"}
ReadOps == {"battery get", "battery status", "cpu status", "cpu list"}
InRangeText(t) ==
    IntParse(t).ok /\ MinLimit <= IntParse(t).val /\ IntParse(t).val <= MaxLimit

\* C11: the battery find_supported_battery returns is an entry of
\* /sys/class/power_supply/ whose name starts with BAT and which holds
\* charge_control_end_threshold, never a BAT* entry without that file; it
\* returns one whenever one exists, and nothing exactly when the directory is
\* absent or no BAT* entry holds the file.
C11_FindBattery ==
    (\/ last.op \in {"battery get", "battery status"}
     \/ last.op = "uninstall" /\ last.euid = RootUid)
       => (/\ last.bat # NoBattery => psDir /\ Qualifies(last.bat)
           /\ last.bat = NoBattery <=> (~psDir \/ ~\E d \in psEnt : Qualifies(d)))

C11_Witness ==
    /\ last.op = "battery get" /\ last.exit = 0
    /\ BAT0 \in psEnt /\ ~thr[BAT0].exists
    /\ last.bat = BAT1

\* C12: _apply_on_boot with no config file present writes nothing: the live
\* limit is unchanged, no config file is created, and it ends without error.
C12_NoConfigNoWrites ==
    [][(last'.op = "apply on boot" /\ ~config.exists)
       => (/\ thr' = thr
           /\ config' = config
           /\ last'.io = <<>>
           /\ ~last'.raised
           /\ last'.exit = 0 /\ last'.err = NoErr)]_vars

C12_Witness ==
    /\ last.op = "apply on boot" /\ last.afterReboot
    /\ ~config.exists
    /\ last.io = <<>>
    /\ \E d \in psEnt : Qualifies(d) /\ LiveLimit(d) = [ok |-> TRUE, val |-> 0]

\* C13: the boot-time entrypoint always exits 0 and prints nothing, whatever
\* fails inside it (the config cannot be read, there is no supported battery,
\* the sysfs write fails), and it never modifies the config file.
C13_BootSilent ==
    [][(last'.op = "apply on boot")
       => (/\ last'.exit = 0
           /\ last'.err = NoErr
           /\ last'.out = <<>>
           /\ config' = config)]_vars

C13_Witness ==
    /\ last.op = "apply on boot" /\ last.raised
    /\ Len(last.io) = 2
    /\ last.exit = 0 /\ last.out = <<>>
    /\ config.exists

\* C14: with the capacity file absent, get_current_capacity returns no value
\* as a normal result and battery status still exits 0 with the limit; with
\* charge_control_end_threshold absent or not a valid integer,
\* get_current_limit reports the read error and the process exits 1.
C14_CapacityVsLimit ==
    [][/\ (/\ last'.op = "get_current_capacity"
           /\ ~cap[last'.bat].exists)
          => (last'.cap = NoVal /\ last'.exit = 0 /\ last'.err = NoErr)
       /\ (/\ last'.op = "battery status" /\ last'.bat # NoBattery
           /\ IntParse(thr[last'.bat].text).ok
           /\ ~cap[last'.bat].exists)
          => (/\ last'.exit = 0 /\ last'.err = NoErr
              /\ last'.val = IntParse(thr[last'.bat].text).val
              /\ last'.cap = NoVal)
       /\ (/\ last'.op \in {"get_current_limit", "battery get", "battery status"}
           /\ last'.bat # NoBattery
           /\ (~thr[last'.bat].exists \/ ~IntParse(thr[last'.bat].text).ok))
          => (last'.exit = 1 /\ last'.err = ErrReadLimit /\ last'.val = NoVal)]_vars

C14_Witness ==
    /\ last.op = "battery status" /\ last.exit = 0
    /\ ~cap[last.bat].exists
    /\ last.cap = NoVal
    /\ last.val = 75

\* C15: in the direct command-line paths the exit code is 1 whenever a
\* validation, permission or I/O failure occurred (the command printed an
\* error) and 0 otherwise; exit 0 never follows a failed write.
C15_ExitCodes ==
    [][(last'.op \in CliOps)
       => (/\ last'.exit = IF last'.err # NoErr THEN 1 ELSE 0
           /\ (~last'.thrOk \/ last'.cfgIO # "ok" \/ last'.failCore # NoCore)
                 => last'.exit # 0)]_vars

\* C16: cpu status returns the content of cpu0/cpufreq/scaling_governor when
\* the file exists and the literal "not available" when it is missing; it
\* does not fail, and it needs no privilege.
C16_GovernorStatus ==
    [][(last'.op = "cpu status" /\ last'.bat # NoBattery)
       => (/\ last'.exit = 0 /\ last'.err = NoErr
           /\ IF gov[CoreName(0)].exists
              THEN gov[CoreName(0)].text = last'.sval \o <<"\n">>
              ELSE last'.sval = NotAvailable
           /\ gov' = gov)]_vars

C16_Witness ==
    /\ last.op = "cpu status" /\ last.euid # RootUid
    /\ ~gov[CoreName(0)].exists
    /\ gov[CoreName(1)].exists
    /\ last.sval = NotAvailable /\ last.exit = 0

\* C17: battery get, battery status, cpu status and cpu list leave the live
\* limit, the config file and every governor as they were, and the same
\* command run twice in a row on the same battery gives the same result.
C17_ReadsIdempotent ==
    [][(last'.op \in ReadOps)
       => (/\ thr' = thr /\ config' = config /\ gov' = gov /\ avail' = avail
           /\ (last.op = last'.op /\ last.bat = last'.bat)
                 => (/\ last'.exit = last.exit /\ last'.err = last.err
                     /\ last'.val = last.val /\ last'.cap = last.cap
                     /\ last'.sval = last.sval))]_vars

C17_Witness ==
    /\ last.op = "battery status" /\ last.afterSame
    /\ last.exit = 0 /\ last.val = 75 /\ last.cap = 42
    /\ SavedLimit = [ok |-> TRUE, val |-> 75]

\* C18: starting with the config file absent (or holding an integer in
\* 50..100), after any interleaving of set_charge_limit, _apply_on_boot,
\* install and uninstall the config file, if present, holds an integer in
\* 50..100, and every value the program writes to
\* charge_control_end_threshold is in 50..100.
C18_RangeInvariant ==
    [][(last'.op # "reboot")
       => (/\ config'.exists => InRangeText(config'.text)
           /\ \A d \in PsNames :
                 thr'[d] # thr[d] => InRangeText(thr'[d].text))]_vars

\* C19: every command of the command line, the cpu commands included, first
\* needs a supported battery: when find_supported_battery finds none the
\* command prints the no-supported-battery error and exits 1 before any
\* privilege check, any read of a governor file and any write.
C19_BatteryFirst ==
    [][(/\ last'.op \in CliOps /\ last'.err # ErrUsage
        /\ ~\E d \in psEnt : psDir /\ Qualifies(d))
       => (/\ last'.exit = 1 /\ last'.err = ErrNoBattery
           /\ last'.io = <<>>
           /\ last'.bat = NoBattery
           /\ thr' = thr /\ config' = config /\ gov' = gov)]_vars

C19_Witness ==
    /\ last.op = "cpu set" /\ last.euid # RootUid /\ last.name = "bogus"
    /\ ~psDir
    /\ last.err = ErrNoBattery /\ last.exit = 1 /\ last.io = <<>>

====
